---- MODULE Spec2Model ----
(***************************************************************************)
(* Job execution engine of urs-saas: the job store (scrape_jobs), the      *)
(* registry of background tasks (background_jobs), the asyncio task        *)
(* run_scrape_job, the thread-pool call _run_scrape_sync with its progress *)
(* callback, the DELETE handler cancel_job and the lifespan shutdown.      *)
(***************************************************************************)
EXTENDS Integers, Sequences, FiniteSets, TLC

(***************************************************************************)
(* Bounds of the model.                                                    *)
(***************************************************************************)
\* number of job ids the create endpoint hands out
MaxJobs == 1
\* number of records one provider listing yields at most
MaxItems == 1
\* tasks created over a run when a job may be submitted again
MaxTasks == 2
\* progress streams opened over a run
MaxStreams == 2
\* jobs submitted when the worker pool is to be saturated
PoolJobs == 5
\* replies of one comment, and comments at one level of a thread's forest
MaxReplies == 2

(***************************************************************************)
(* Python float arithmetic of the progress computations:                   *)
(*   int((current / total) * 100)                job_runner.py:139         *)
(*   int((i + 1) / limit * 50)                   scraper.py:173, 188       *)
(*   int((i + 1) / total * (end - start))        scraper.py:316            *)
(* int / int is a correctly rounded IEEE-754 double, float * int a         *)
(* correctly rounded product, int() truncates.  A double is kept as        *)
(* [m, e]: m the 53 significand bits, most significant first, and the      *)
(* value is m * 2^(e - 52); zero is [m |-> <<>>, e |-> 0].                 *)
(***************************************************************************)
MantissaBits == 53
\* the long division and the product work on limbs of this many bits
LimbBits == 18

RECURSIVE Pow2(_)
Pow2(n) == IF n = 0 THEN 1 ELSE 2 * Pow2(n - 1)

Min(a, b) == IF a <= b THEN a ELSE b

\* smallest s >= 0 with c < t * 2^(s+1), for c >= t
RECURSIVE ShiftDown(_, _, _)
ShiftDown(c, t, s) == IF c < 2 * t * Pow2(s) THEN s ELSE ShiftDown(c, t, s + 1)

\* smallest s >= 1 with c * 2^s >= t, for c < t
RECURSIVE ShiftUp(_, _, _)
ShiftUp(c, t, s) == IF c * Pow2(s) >= t THEN s ELSE ShiftUp(c, t, s + 1)

\* the n bits of v < 2^n, most significant first
BitsOf(v, n) == [i \in 1..n |-> (v \div Pow2(n - i)) % 2]

\* the value of at most 30 bits
RECURSIVE BitsToInt(_)
BitsToInt(bits) ==
    IF bits = <<>> THEN 0
    ELSE 2 * BitsToInt(SubSeq(bits, 1, Len(bits) - 1)) + bits[Len(bits)]

\* n further quotient limbs of r / t (r < t < 2^12) by long division, as
\* bits, and the remainder
RECURSIVE DivBits(_, _, _)
DivBits(r, t, n) ==
    IF n = 0 THEN [bits |-> <<>>, rem |-> r]
    ELSE LET x == r * Pow2(LimbBits)
             rest == DivBits(x % t, t, n - 1)
         IN  [bits |-> BitsOf(x \div t, LimbBits) \o rest.bits, rem |-> rest.rem]

\* bits + 1; the result is one bit longer when every bit was 1
IncBits(bits) ==
    LET n == Len(bits)
        zeros == {i \in 1..n : bits[i] = 0}
    IN  IF zeros = {} THEN <<1>> \o [i \in 1..n |-> 0]
        ELSE LET p == CHOOSE i \in zeros : \A j \in zeros : j <= i
             IN  [i \in 1..n |-> IF i < p THEN bits[i] ELSE IF i = p THEN 1 ELSE 0]

StripZeros(bits) ==
    LET ones == {i \in 1..Len(bits) : bits[i] = 1}
    IN  IF ones = {} THEN <<>>
        ELSE SubSeq(bits, CHOOSE i \in ones : \A j \in ones : i <= j, Len(bits))

AnyOne(bits) == \E i \in 1..Len(bits) : bits[i] = 1

\* round bits, whose leading bit has weight 2^e, to 53 bits, ties to even;
\* sticky says that non-zero bits lie below bits
RoundBits(bits, e, sticky) ==
    LET n == Len(bits)
        keep == SubSeq(bits, 1, MantissaBits)
        drop == SubSeq(bits, MantissaBits + 1, n)
        up == /\ drop # <<>>
              /\ drop[1] = 1
              /\ (AnyOne(Tail(drop)) \/ sticky \/ keep[MantissaBits] = 1)
        m == IF up THEN IncBits(keep) ELSE keep
    IN  IF Len(m) > MantissaBits
        THEN [m |-> SubSeq(m, 1, MantissaBits), e |-> e + 1]
        ELSE [m |-> m, e |-> e]

FloatZero == [m |-> <<>>, e |-> 0]

\* c / t for ints 0 <= c < 2^12, 0 < t < 2^12 (Python true division)
FloatDiv(c, t) ==
    IF c = 0 THEN FloatZero
    ELSE LET down == c >= t
             s == IF down THEN ShiftDown(c, t, 0) ELSE ShiftUp(c, t, 1)
             cc == IF down THEN c ELSE c * Pow2(s)
             tt == IF down THEN t * Pow2(s) ELSE t
             q == DivBits(cc - tt, tt, 3)
         IN  \* the leading 1 and 54 more quotient bits
             RoundBits(<<1>> \o q.bits, IF down THEN s ELSE 0 - s, q.rem # 0)

\* bits * k + c for k < 2^12, Len(bits) a multiple of LimbBits, limb by limb
\* from the least significant
RECURSIVE MulBits(_, _, _)
MulBits(bits, k, c) ==
    IF bits = <<>> THEN BitsOf(c, LimbBits)
    ELSE LET n == Len(bits)
             x == BitsToInt(SubSeq(bits, n - LimbBits + 1, n)) * k + c
         IN  MulBits(SubSeq(bits, 1, n - LimbBits), k, x \div Pow2(LimbBits))
                 \o BitsOf(x % Pow2(LimbBits), LimbBits)

\* f * k for a double f and an int 0 < k < 2^12
FloatMulInt(f, k) ==
    IF f.m = <<>> THEN FloatZero
    ELSE LET p == StripZeros(MulBits(<<0>> \o f.m, k, 0))
         IN  RoundBits(p, f.e + (Len(p) - MantissaBits), FALSE)

\* int(f) for a double 0 <= f < 2^30
FloatToInt(f) ==
    IF f.m = <<>> \/ f.e < 0 THEN 0
    ELSE BitsToInt(SubSeq(f.m, 1, f.e + 1))

\* int((c / t) * k)
FloatIntOfRatioTimes(c, t, k) == FloatToInt(FloatMulInt(FloatDiv(c, t), k))

\* the arguments the progress computations of the model are called with:
\* percentages of 100, and counts of a listing against its length or limit;
\* their values are computed once, as an explicit function
RatioArgs ==
    ((0..100) \X {100} \X {100}) \cup ((0..8) \X (1..8) \X {50, 100})
RatioTable ==
    [a \in RatioArgs |-> FloatIntOfRatioTimes(a[1], a[2], a[3])] @@ <<>>
IntOfRatioTimes(c, t, k) ==
    IF <<c, t, k>> \in RatioArgs THEN RatioTable[<<c, t, k>>]
    ELSE FloatIntOfRatioTimes(c, t, k)

(***************************************************************************)
(* Values.                                                                 *)
(***************************************************************************)
\* Python None and a set optional value
None == <<>>
Some(v) == <<v>>

\* models.py JobStatus; the spec's terminal statuses
JobStatus == {"pending", "running", "completed", "failed", "cancelled"}
Terminal == {"completed", "failed", "cancelled"}

\* the user who creates jobs, and another authenticated user
Users == {"demo-user-id", "other-user"}
Creators == {"demo-user-id"}

\* models.py SubredditConfig, RedditorConfig, CommentsConfig after model_dump()
SubredditConfig(category, limit, search_query) ==
    [subreddit |-> "r", category |-> category, limit |-> limit,
     time_filter |-> None, search_query |-> search_query]
RedditorConfig(limit) == [username |-> "u", limit |-> limit]
CommentsConfig(limit, structured) ==
    [url |-> "url", limit |-> limit, structured |-> structured]

\* the key _run_scrape_sync reads unconditionally for each job type
RequiredKey(job_type) ==
    CASE job_type = "subreddit" -> "subreddit"
      [] job_type = "redditor" -> "username"
      [] OTHER -> "url"

\* models.py JobCreate: the create requests of the model.  job_type and
\* config are validated independently, the config against the union of the
\* three config classes, so the last request is accepted too.
JobCreate ==
    {[job_type |-> "subreddit", config |-> SubredditConfig("hot", 1, None)],
     [job_type |-> "subreddit", config |-> SubredditConfig("search", 1, None)],
     [job_type |-> "redditor", config |-> RedditorConfig(6)],
     [job_type |-> "comments", config |-> CommentsConfig(0, TRUE)],
     [job_type |-> "comments", config |-> CommentsConfig(0, FALSE)],
     [job_type |-> "subreddit", config |-> RedditorConfig(1)]}

\* exceptions: the class, the status of the response it carries (0: none)
\* and str(e)
Exc(cls, code, text) == [cls |-> cls, status_code |-> code, text |-> text]

\* what a provider call raises in the model
ProviderErrors == {Exc("TooManyRequests", 429, "received 429 HTTP response")}

\* state of the caller's user_profiles row, as run_scrape_job reads it
Profiles == {"absent", "no_client_id", "configured"}

(***************************************************************************)
(* _format_error_message.  A message is [head, code, text]: the fixed      *)
(* leading sentence, and the status code and str(e) where the message      *)
(* interpolates them (0 and "" where it does not).                         *)
(***************************************************************************)
Msg(head, code, text) == [head |-> head, code |-> code, text |-> text]

\* direct base class in prawcore.exceptions ("" above the provider's base)
BaseClass(cls) ==
    CASE cls \in {"TooManyRequests", "Forbidden", "NotFound", "ServerError",
                  "Redirect", "BadRequest"} -> "ResponseException"
      [] cls \in {"ResponseException", "RequestException", "OAuthException",
                  "InvalidInvocation"} -> "PrawcoreException"
      [] OTHER -> ""

\* isinstance(e, base)
IsInstance(e, base) ==
    \/ e.cls = base
    \/ BaseClass(e.cls) = base
    \/ BaseClass(BaseClass(e.cls)) = base

\* the response the exception carries as the classifier reads its status:
\*   status_code = getattr(e, "response", None)
\*   if status_code: status_code = getattr(status_code, "status_code", None)
\* The response is a requests.Response, whose truth value is its ok
\* attribute: false for a status of 400 and above.  For those the variable
\* keeps the response object, which equals no number.
ResponseBool(code) == code # 0 /\ code < 400
StatusCode(e) ==
    IF e.status_code = 0 THEN [is |-> "None", code |-> 0]
    ELSE IF ResponseBool(e.status_code) THEN [is |-> "int", code |-> e.status_code]
    ELSE [is |-> "Response", code |-> e.status_code]
IsStatus(sc, n) == sc.is = "int" /\ sc.code = n

\* the checks with the response-status check placed before the rate-limit one
CheckOrderResponseFirst ==
    <<"ResponseException", "TooManyRequests", "Forbidden", "NotFound",
      "ServerError", "RequestException", "OAuthException", "Redirect",
      "PrawcoreException">>

\* the classes the isinstance checks test, in the order of the code
CheckOrder ==
    <<"TooManyRequests", "ResponseException", "Forbidden", "NotFound",
      "ServerError", "RequestException", "OAuthException", "Redirect",
      "PrawcoreException">>

\* the class of the first check that e passes ("": none, the fallback)
FirstCheck(e) ==
    LET passed == {k \in 1..Len(CheckOrder) : IsInstance(e, CheckOrder[k])}
    IN  IF passed = {} THEN ""
        ELSE CheckOrder[CHOOSE k \in passed : \A n \in passed : k <= n]

\* what the body of the check for class check returns
BranchMessage(check, e) ==
    CASE check = "TooManyRequests" ->
           Msg("Rate limited by Reddit API (HTTP 429).", 0, "")
      [] check = "ResponseException" ->
           LET status_code == StatusCode(e)
           IN  IF IsStatus(status_code, 401)
               THEN Msg("Authentication failed (HTTP 401).", 0, "")
               ELSE IF IsStatus(status_code, 403)
               THEN Msg("Access forbidden (HTTP 403). You may not have permission",
                        0, "")
               ELSE IF IsStatus(status_code, 404)
               THEN Msg("Resource not found (HTTP 404).", 0, "")
               ELSE IF IsStatus(status_code, 500)
               THEN Msg("Reddit server error (HTTP 500).", 0, "")
               ELSE IF IsStatus(status_code, 503)
               THEN Msg("Reddit service unavailable (HTTP 503).", 0, "")
               ELSE IF status_code.is = "int"
               THEN Msg("Reddit API error (HTTP status_code): str(e)",
                        status_code.code, e.text)
               ELSE IF status_code.is = "Response"
               THEN Msg("Reddit API error (HTTP <Response [status_code]>): str(e)",
                        status_code.code, e.text)
               ELSE Msg("Reddit API error (HTTP None): str(e)", 0, e.text)
      [] check = "Forbidden" ->
           Msg("Access forbidden (HTTP 403). This subreddit may be private", 0, "")
      [] check = "NotFound" -> Msg("Not found (HTTP 404).", 0, "")
      [] check = "ServerError" ->
           Msg("Reddit server error. Reddit is experiencing technical difficulties.",
               0, "")
      [] check = "RequestException" ->
           Msg("Network error connecting to Reddit.", 0, "")
      [] check = "OAuthException" -> Msg("OAuth authentication error.", 0, "")
      [] check = "Redirect" -> Msg("Redirect detected.", 0, "")
      [] check = "PrawcoreException" -> Msg("Reddit API error: str(e)", 0, e.text)
      [] OTHER -> Msg(e.cls, 0, e.text)

FormatErrorMessage(e) == BranchMessage(FirstCheck(e), e)

(***************************************************************************)
(* State.                                                                  *)
(***************************************************************************)
VARIABLES
    scrape_jobs,      \* the job store: job id -> row (a dict of the table)
    ids_issued,       \* number of job ids the store has generated
    background_jobs,  \* the registry: job id -> index of its task in tasks
    tasks,            \* the asyncio tasks running run_scrape_job
    calls,            \* per task, its _run_scrape_sync call on the executor
    pool_queue,       \* the executor's work queue: task indexes, oldest first
    shut,             \* the lifespan has run its shutdown part
    last,             \* the step just taken, with the store writes it issued
    tally,            \* per job id, counts of the writes issued so far
    user_profiles,    \* the user_profiles table: user id -> state of the row
    streams           \* the open progress streams (event_generator instances)

vars == <<scrape_jobs, ids_issued, background_jobs, tasks, calls, pool_queue,
          shut, last, tally, user_profiles, streams>>

\* a pool with one more thread
max_workers_plus_one == 4 + 1

\* ThreadPoolExecutor(max_workers=4)
max_workers == 4

JobIds == 1..MaxJobs

(***************************************************************************)
(* The table interface (demo_db.DemoTable; the Supabase client has the     *)
(* same single-row effects).                                               *)
(***************************************************************************)
\* dict.update(data)
DictUpdate(item, data) ==
    [f \in DOMAIN item \cup DOMAIN data |->
        IF f \in DOMAIN data THEN data[f] ELSE item[f]]

\* table.update(data).eq("id", id).execute()
TableUpdate(tbl, id, data) ==
    IF id \in DOMAIN tbl
    THEN [k \in DOMAIN tbl |-> IF k = id THEN DictUpdate(tbl[k], data) ELSE tbl[k]]
    ELSE tbl

\* table.delete().eq("id", id).execute()
TableDelete(tbl, id) == [k \in DOMAIN tbl \ {id} |-> tbl[k]]

\* table.insert(data).execute()
TableInsert(tbl, id, data) ==
    [k \in DOMAIN tbl \cup {id} |-> IF k = id THEN data ELSE tbl[k]]

\* table.select("*").eq("id", id).eq("user_id", user).execute().data
SelectOwned(tbl, id, user) ==
    IF id \in DOMAIN tbl /\ tbl[id].user_id = user THEN <<tbl[id]>> ELSE <<>>

\* one store write as the step log keeps it: who issued it, for which id,
\* the fields, the (current, total) report behind a progress write, and
\* whether a row matched
WriteEntry(by, id, data, report, tbl) ==
    [by |-> by, id |-> id, data |-> data, report |-> report,
     hit |-> id \in DOMAIN tbl]

IsTerminalWrite(w) == "status" \in DOMAIN w.data /\ w.data.status \in Terminal
IsWriteOf100(w) == "progress" \in DOMAIN w.data /\ w.data.progress = 100

RECURSIVE Count(_, _, _)
Count(ws, id, kind) ==
    IF ws = <<>> THEN 0
    ELSE (IF /\ ws[1].id = id
             /\ \/ kind = "terminal" /\ IsTerminalWrite(ws[1])
                \/ kind = "100" /\ IsWriteOf100(ws[1])
          THEN 1 ELSE 0) + Count(Tail(ws), id, kind)

Tally(t, ws) ==
    [j \in JobIds |-> [n100 |-> t[j].n100 + Count(ws, j, "100"),
                       nterminal |-> t[j].nterminal + Count(ws, j, "terminal")]]

Step(op, id, caller, ws) == [op |-> op, id |-> id, caller |-> caller, writes |-> ws]

(***************************************************************************)
(* The fields of each store write.                                         *)
(***************************************************************************)
\* create_job's row; the columns it does not give are null
NewJobRow(id, user, req) ==
    [id |-> id, user_id |-> user, job_type |-> req.job_type, config |-> req.config,
     status |-> "pending", progress |-> 0, error_message |-> None,
     result_data |-> None, started_at |-> None, completed_at |-> None]

RunningUpdate == [status |-> "running", started_at |-> Some("utcnow")]

\* the final success write without its result
CompletedUpdateNoResult(result) ==
    [status |-> "completed", progress |-> 100, completed_at |-> Some("utcnow")]

CompletedUpdate(result) ==
    [status |-> "completed", progress |-> 100, result_data |-> Some(result),
     completed_at |-> Some("utcnow")]

\* cancellation handled as a failure
CancelledAsFailed ==
    [status |-> "failed", error_message |-> Some(Msg("CancelledError", 0, "")),
     completed_at |-> Some("utcnow")]
\* the cancellation write resetting the progress
CancelledResetsProgress ==
    [status |-> "cancelled", progress |-> 0, completed_at |-> Some("utcnow")]

CancelledUpdate == [status |-> "cancelled", completed_at |-> Some("utcnow")]

\* the failure write without its message
FailedUpdateNoMessage(e) == [status |-> "failed", completed_at |-> Some("utcnow")]

\* a failure write that stores the exception's own text
FailedUpdateRawText(e) ==
    [status |-> "failed", error_message |-> Some(Msg("", 0, e.text)),
     completed_at |-> Some("utcnow")]

FailedUpdate(e) ==
    [status |-> "failed", error_message |-> Some(FormatErrorMessage(e)),
     completed_at |-> Some("utcnow")]

\* the write of cancel_job
CancelJobUpdate == [status |-> "cancelled"]

\* no cap
CapProgressNone(progress) == progress

\* update_progress: "Cap at 99 until complete"
CapProgress(progress) == Min(progress, 99)

\* update_progress(current, total, message): the value written
ProgressValue(current, total) ==
    CapProgress(IF total > 0 THEN IntOfRatioTimes(current, total, 100) ELSE 0)

ProgressUpdate(current, total) == [progress |-> ProgressValue(current, total)]

(***************************************************************************)
(* Tasks and executor calls.                                               *)
(*   task.pc: "created" (scheduled, not yet run), "awaiting" (suspended in *)
(*   run_in_executor), "done"; must_cancel: cancel() was called and the    *)
(*   CancelledError is not yet delivered; outcome: how the coroutine left. *)
(*   call.st: "none", "queued", "running", "returned", "raised",           *)
(*   "cancelled" (future cancelled before a worker took it).               *)
(***************************************************************************)
NewTask(job_id, user) ==
    [job_id |-> job_id, user_id |-> user, pc |-> "created",
     must_cancel |-> FALSE, outcome |-> "none"]

NoCall ==
    [st |-> "none", job_type |-> "", config |-> [limit |-> 0], phase |-> "",
     i |-> 0, total |-> 0, all |-> 0, submissions |-> <<>>,
     comments |-> <<>>, data |-> <<>>, result |-> None, exc |-> None]

\* a cancel that also ends a call a worker is running
FutureCancelStopsWorker(st) ==
    IF st \in {"queued", "running"} THEN "cancelled" ELSE st

\* concurrent.futures.Future.cancel(): only a call that no worker has taken
FutureCancel(st) == IF st = "queued" THEN "cancelled" ELSE st

\* asyncio.Task.cancel() on task t: a finished task ignores it; otherwise
\* the CancelledError is thrown into the coroutine at its next step, and
\* the executor future the task awaits is cancelled
TaskCancelTasks(ts, t) ==
    IF ts[t].pc = "done" THEN ts ELSE [ts EXCEPT ![t].must_cancel = TRUE]
TaskCancelCalls(ts, cs, t) ==
    IF ts[t].pc = "awaiting" THEN [cs EXCEPT ![t].st = FutureCancel(@)] ELSE cs

\* del background_jobs[job_id]
RegistryDel(reg, id) == [k \in DOMAIN reg \ {id} |-> reg[k]]

\* run_scrape_job's finally block
Unregister(reg, id) == IF id \in DOMAIN reg THEN RegistryDel(reg, id) ELSE reg

\* a submit that keeps no handle
RegisterNothing(reg, id, t) == reg

\* start_scrape_job: background_jobs[job_id] = task
Register(reg, id, t) == [k \in DOMAIN reg \cup {id} |-> IF k = id THEN t ELSE reg[k]]

Running == {t \in 1..Len(calls) : calls[t].st = "running"}

Init ==
    /\ scrape_jobs = <<>>
    /\ ids_issued = 0
    /\ background_jobs = <<>>
    /\ tasks = <<>>
    /\ calls = <<>>
    /\ pool_queue = <<>>
    /\ shut = FALSE
    /\ last = Step("init", 0, "", <<>>)
    /\ tally = [j \in JobIds |-> [n100 |-> 0, nterminal |-> 0]]
    \* the profiles as the program finds them in the store at start
    /\ user_profiles \in [Creators -> Profiles]
    /\ streams = <<>>

(***************************************************************************)
(* Request handlers and the lifespan.                                      *)
(***************************************************************************)
\* start_scrape_job: create the task, store it under the job's id
StartScrapeJob(id, user) ==
    /\ tasks' = Append(tasks, NewTask(id, user))
    /\ calls' = Append(calls, NoCall)
    /\ background_jobs' = Register(background_jobs, id, Len(tasks) + 1)

\* POST /{project_id}/jobs, with start_scrape_job, while fewer than max jobs
\* have been created
CreateJob(user, req, max) ==
    /\ ~shut
    /\ ids_issued < max
    /\ LET id == ids_issued + 1
       IN  /\ scrape_jobs' = TableInsert(scrape_jobs, id, NewJobRow(id, user, req))
           /\ ids_issued' = id
           /\ StartScrapeJob(id, user)
           /\ last' = Step("create_job", id, user, <<>>)
    /\ UNCHANGED <<pool_queue, shut, user_profiles, streams, tally>>

create_job(user, req) == CreateJob(user, req, MaxJobs)

\* start_scrape_job called for a job that has been submitted before
start_scrape_job(id, user) ==
    /\ ~shut
    /\ id \in 1..ids_issued
    /\ Len(tasks) < MaxTasks
    /\ StartScrapeJob(id, user)
    /\ last' = Step("start_scrape_job", id, user, <<>>)
    /\ UNCHANGED <<scrape_jobs, ids_issued, pool_queue, shut, user_profiles, streams, tally>>

\* cancel_job without its del
CancelJobKeepsEntry(reg, id) == reg

\* the registry after cancel_job saw status running
CancelJobRegistry(reg, id) == Unregister(reg, id)

\* cancel_job cancelling whatever the status
IsRunningAlways(row) == TRUE

\* cancel_job: if job["status"] == "running"
IsRunning(row) == row.status = "running"

\* the dict cancel_job's delete took out of the table; an update that
\* filtered before the delete still holds it
Deleted(item) == [deleted |-> item]

\* DELETE /{job_id}
cancel_job(id, user) ==
    /\ ~shut
    /\ id \in 1..ids_issued
    /\ LET result == SelectOwned(scrape_jobs, id, user)
       IN  IF result = <<>>
           THEN \* 404
                /\ last' = Step("cancel_job", id, user, <<>>)
                /\ UNCHANGED <<scrape_jobs, background_jobs, tasks, calls, tally>>
           ELSE IF IsRunning(result[1])
           THEN LET registered == id \in DOMAIN background_jobs
                    t == background_jobs[id]
                    w == WriteEntry("cancel_job", id, CancelJobUpdate, <<>>, scrape_jobs)
                IN  /\ tasks' = IF registered THEN TaskCancelTasks(tasks, t) ELSE tasks
                    /\ calls' = IF registered THEN TaskCancelCalls(tasks, calls, t)
                                ELSE calls
                    /\ background_jobs' = CancelJobRegistry(background_jobs, id)
                    /\ scrape_jobs' = TableUpdate(scrape_jobs, id, CancelJobUpdate)
                    /\ last' = Step("cancel_job", id, user, <<w>>)
                    /\ tally' = Tally(tally, <<w>>)
           ELSE /\ scrape_jobs' = TableDelete(scrape_jobs, id)
                /\ last' = Step("cancel_job", id, user, <<>>) @@ Deleted(result[1])
                /\ UNCHANGED <<background_jobs, tasks, calls, tally>>
    /\ UNCHANGED <<ids_issued, pool_queue, shut, user_profiles, streams>>

\* lifespan, after the yield: cancel every registered task that is not done
RECURSIVE CancelAllTasks(_, _)
CancelAllTasks(ts, ids) ==
    IF ids = {} THEN ts
    ELSE LET id == CHOOSE k \in ids : TRUE
         IN  CancelAllTasks(TaskCancelTasks(ts, background_jobs[id]), ids \ {id})
RECURSIVE CancelAllCalls(_, _)
CancelAllCalls(cs, ids) ==
    IF ids = {} THEN cs
    ELSE LET id == CHOOSE k \in ids : TRUE
         IN  CancelAllCalls(TaskCancelCalls(tasks, cs, background_jobs[id]), ids \ {id})

lifespan_shutdown ==
    /\ ~shut
    /\ shut' = TRUE
    /\ tasks' = CancelAllTasks(tasks, DOMAIN background_jobs)
    /\ calls' = CancelAllCalls(calls, DOMAIN background_jobs)
    /\ last' = Step("lifespan_shutdown", 0, "", <<>>)
    /\ UNCHANGED <<scrape_jobs, ids_issued, background_jobs, pool_queue, tally,
                   user_profiles, streams>>

(***************************************************************************)
(* run_scrape_job: one action per stretch between suspension points.       *)
(***************************************************************************)
\* the coroutine ends: the finally block, and the task is done
TaskEnds(t, tbl, ws, outcome) ==
    /\ scrape_jobs' = tbl
    /\ background_jobs' = Unregister(background_jobs, tasks[t].job_id)
    /\ tasks' = [tasks EXCEPT ![t].pc = "done", ![t].must_cancel = FALSE,
                              ![t].outcome = outcome]
    /\ last' = Step("run_scrape_job", tasks[t].job_id, "", ws)
    /\ tally' = Tally(tally, ws)

\* except Exception as e
TaskFails(t, tbl, ws, e) ==
    \E data \in {FailedUpdate(e)} :
        LET id == tasks[t].job_id
            w == WriteEntry("run_scrape_job", id, data, <<>>, tbl)
        IN  TaskEnds(t, TableUpdate(tbl, id, data), Append(ws, w), "failed")

\* a stretch before the dispatch that does not look at the credentials
PreDispatchErrorNoCredentialsCheck(tbl, id, profile) ==
    IF id \notin DOMAIN tbl THEN Some(Exc("ValueError", 0, "Job not found"))
    ELSE None

\* the exception the stretch before the dispatch raises, or None
PreDispatchError(tbl, id, profile) ==
    IF id \notin DOMAIN tbl THEN Some(Exc("ValueError", 0, "Job not found"))
    ELSE IF profile # "configured"
    THEN Some(Exc("ValueError", 0, "Reddit credentials not configured."))
    ELSE None

\* first step of the task: from the start to the await of run_in_executor
run_scrape_job_start(t) ==
    /\ tasks[t].pc = "created"
    /\ ~tasks[t].must_cancel
    /\ LET id == tasks[t].job_id
           w == WriteEntry("run_scrape_job", id, RunningUpdate, <<>>, scrape_jobs)
           tbl == TableUpdate(scrape_jobs, id, RunningUpdate)
           profile == user_profiles[tasks[t].user_id]
       IN  \E error \in {PreDispatchError(tbl, id, profile)} :
                 IF error # None
                 THEN /\ TaskFails(t, tbl, <<w>>, error[1])
                      /\ UNCHANGED <<calls, pool_queue>>
                 ELSE /\ scrape_jobs' = tbl
                      /\ tasks' = [tasks EXCEPT ![t].pc = "awaiting"]
                      /\ calls' = [calls EXCEPT ![t] =
                                     [NoCall EXCEPT !.st = "queued",
                                                    !.job_type = tbl[id].job_type,
                                                    !.config = tbl[id].config,
                                                    !.phase = "entry"]]
                      /\ pool_queue' = Append(pool_queue, t)
                      /\ last' = Step("run_scrape_job", id, "", <<w>>)
                      /\ tally' = Tally(tally, <<w>>)
                      /\ UNCHANGED background_jobs
    /\ UNCHANGED <<ids_issued, shut, user_profiles, streams>>

\* a task cancelled before its first step: the CancelledError is thrown into
\* the coroutine before its body, so neither the try nor the finally runs
run_scrape_job_unstarted(t) ==
    /\ tasks[t].pc = "created"
    /\ tasks[t].must_cancel
    /\ tasks' = [tasks EXCEPT ![t].pc = "done", ![t].must_cancel = FALSE,
                              ![t].outcome = "unstarted"]
    /\ last' = Step("run_scrape_job", tasks[t].job_id, "", <<>>)
    /\ UNCHANGED <<scrape_jobs, ids_issued, background_jobs, calls, pool_queue,
                   shut, user_profiles, streams, tally>>

\* the await returns the worker's result or raises its exception
run_scrape_job_resume(t) ==
    /\ tasks[t].pc = "awaiting"
    /\ ~tasks[t].must_cancel
    /\ LET id == tasks[t].job_id
       IN  \/ /\ calls[t].st = "returned"
              /\ LET data == CompletedUpdate(calls[t].result[1])
                     w == WriteEntry("run_scrape_job", id, data, <<>>, scrape_jobs)
                 IN  TaskEnds(t, TableUpdate(scrape_jobs, id, data), <<w>>, "completed")
           \/ /\ calls[t].st = "raised"
              /\ TaskFails(t, scrape_jobs, <<>>, calls[t].exc[1])
    /\ UNCHANGED <<ids_issued, calls, pool_queue, shut, user_profiles, streams>>

\* the await raises CancelledError: except asyncio.CancelledError
run_scrape_job_cancelled(t) ==
    /\ tasks[t].pc = "awaiting"
    /\ tasks[t].must_cancel
    /\ LET id == tasks[t].job_id
           w == WriteEntry("run_scrape_job", id, CancelledUpdate, <<>>, scrape_jobs)
       IN  TaskEnds(t, TableUpdate(scrape_jobs, id, CancelledUpdate), <<w>>, "cancelled")
    /\ UNCHANGED <<ids_issued, calls, pool_queue, shut, user_profiles, streams>>

(***************************************************************************)
(* The executor and _run_scrape_sync on a worker thread: one action per    *)
(* stretch that ends with a progress write, a return or a raise.           *)
(***************************************************************************)
\* a free worker thread takes the oldest work item; a cancelled one is dropped
executor_take ==
    /\ pool_queue # <<>>
    /\ Cardinality(Running) < max_workers
    /\ LET t == Head(pool_queue)
       IN  calls' = IF calls[t].st = "queued"
                    THEN [calls EXCEPT ![t].st = "running"]
                    ELSE calls
    /\ pool_queue' = Tail(pool_queue)
    /\ last' = Step("executor", 0, "", <<>>)
    /\ UNCHANGED <<scrape_jobs, ids_issued, background_jobs, tasks, shut, user_profiles, streams, tally>>

\* the writes of update_progress for a sequence of (current, total) reports
RECURSIVE ReportEntries(_, _, _)
ReportEntries(tbl, id, reports) ==
    IF reports = <<>> THEN <<>>
    ELSE <<WriteEntry("update_progress", id,
                      ProgressUpdate(reports[1][1], reports[1][2]), reports[1], tbl)>>
         \o ReportEntries(tbl, id, Tail(reports))

RECURSIVE ApplyReports(_, _, _)
ApplyReports(tbl, id, reports) ==
    IF reports = <<>> THEN tbl
    ELSE ApplyReports(TableUpdate(tbl, id, ProgressUpdate(reports[1][1], reports[1][2])),
                      id, Tail(reports))

\* DemoTable.execute is not atomic: a worker thread's update filters the
\* rows, and cancel_job's delete, on the event-loop thread, may run before
\* the update's loop stores each filtered item again.  HeldItems is what
\* such an update of job id holds when the delete was the step just taken.
HeldItems(id) ==
    IF last.op = "cancel_job" /\ last.id = id /\ "deleted" \in DOMAIN last
    THEN {last.deleted}
    ELSE {}

\* item.update(data); self._data[item["id"]] = item
StoreHeld(tbl, id, item, data) == TableInsert(tbl, id, DictUpdate(item, data))

\* a stretch of the worker of task t: its frame becomes c, after the reports;
\* the first update may have filtered before a delete that has just run
Worker(t, c, reports) ==
    LET id == tasks[t].job_id
    IN  /\ \/ LET ws == ReportEntries(scrape_jobs, id, reports)
              IN  /\ scrape_jobs' = ApplyReports(scrape_jobs, id, reports)
                  /\ last' = Step("_run_scrape_sync", id, "", ws)
                  /\ tally' = Tally(tally, ws)
           \/ /\ reports # <<>>
              /\ \E item \in HeldItems(id) :
                    LET tbl == StoreHeld(scrape_jobs, id, item,
                                   ProgressUpdate(reports[1][1], reports[1][2]))
                        ws == ReportEntries(tbl, id, reports)
                    IN  /\ scrape_jobs' = ApplyReports(tbl, id, Tail(reports))
                        /\ last' = Step("_run_scrape_sync", id, "", ws)
                        /\ tally' = Tally(tally, ws)
        /\ calls' = [calls EXCEPT ![t] = c]
        /\ UNCHANGED <<ids_issued, background_jobs, tasks, pool_queue, shut, user_profiles, streams>>

Returns(c, result) == [c EXCEPT !.st = "returned", !.result = Some(result)]
Raises(c, e) == [c EXCEPT !.st = "raised", !.exc = Some(e)]

\* serialize_submission / serialize_comment of the i-th record of a listing
Serialized(i) == [id |-> i]
\* a marker holding the exception's class name
ErrorMarkerClassName(e) == [error |-> e.cls]

\* {"error": str(e)}
ErrorMarker(e) == [error |-> e.text]

\* scrape_redditor: the current value reported in each phase
SubmissionsCurrent(i, limit) == IntOfRatioTimes(i + 1, limit, 50)
\* the comments phase without its offset
CommentsCurrentNoOffset(i, limit) == IntOfRatioTimes(i + 1, limit, 50)
CommentsCurrent(i, limit) == 50 + IntOfRatioTimes(i + 1, limit, 50)
\* _build_comment_tree(forest, cb, 50, 100) and the flat loop of scrape_comments
TreeCurrent(i, total) == 50 + IntOfRatioTimes(i + 1, total, 100 - 50)
FlatCurrent(i, total) == 50 + IntOfRatioTimes(i + 1, total, 50)

\* the listing generator may yield its next record
MayYield(c) == c.i < c.config.limit /\ c.i < MaxItems

\* _run_scrape_sync up to the call of the scraper method, and that method up
\* to its first report
run_scrape_sync_entry(t) ==
    /\ calls[t].st = "running"
    /\ calls[t].phase = "entry"
    /\ LET c == calls[t]
       IN  IF RequiredKey(c.job_type) \notin DOMAIN c.config
           THEN Worker(t, Raises(c, Exc("KeyError", 0, RequiredKey(c.job_type))), <<>>)
           ELSE \/ /\ c.job_type = "subreddit"
                   /\ IF c.config.category = "search" /\ c.config.search_query = None
                      THEN Worker(t, Raises(c, Exc("ValueError", 0,
                                  "search_query is required for search category")), <<>>)
                      ELSE Worker(t, [c EXCEPT !.phase = "listing"], <<>>)
                \/ /\ c.job_type = "redditor"
                   /\ Worker(t, [c EXCEPT !.phase = "submissions"], <<<<0, 100>>>>)
                \/ /\ c.job_type = "comments"
                   /\ \/ Worker(t, [c EXCEPT !.phase = "replace_more"], <<<<10, 100>>>>)
                      \/ \E e \in ProviderErrors : Worker(t, Raises(c, e), <<>>)

\* scrape_subreddit: the loop over the listing
scrape_subreddit(t) ==
    /\ calls[t].st = "running"
    /\ calls[t].phase = "listing"
    /\ LET c == calls[t]
       IN  \/ /\ MayYield(c)
              /\ Worker(t, [c EXCEPT !.i = @ + 1, !.data = Append(@, Serialized(c.i + 1))],
                        <<<<c.i + 1, c.config.limit>>>>)
           \/ Worker(t, Returns(c, [data |-> c.data]), <<>>)
           \/ \E e \in ProviderErrors : Worker(t, Raises(c, e), <<>>)

\* scrape_redditor: the submissions loop, then the report of 50
scrape_redditor_submissions(t) ==
    /\ calls[t].st = "running"
    /\ calls[t].phase = "submissions"
    /\ LET c == calls[t]
       IN  \/ /\ MayYield(c)
              /\ Worker(t, [c EXCEPT !.i = @ + 1,
                                     !.submissions = Append(@, Serialized(c.i + 1))],
                        <<<<SubmissionsCurrent(c.i, c.config.limit), 100>>>>)
           \/ Worker(t, [c EXCEPT !.phase = "comments", !.i = 0], <<<<50, 100>>>>)
           \/ \E e \in ProviderErrors :
                Worker(t, [c EXCEPT !.phase = "comments", !.i = 0,
                                    !.submissions = <<ErrorMarker(e)>>],
                       <<<<50, 100>>>>)

\* scrape_redditor: the comments loop and the return
scrape_redditor_comments(t) ==
    /\ calls[t].st = "running"
    /\ calls[t].phase = "comments"
    /\ LET c == calls[t]
           \* the profile information of the result is left out
           result(cs) == [submissions |-> c.submissions, comments |-> cs]
       IN  \/ /\ MayYield(c)
              /\ Worker(t, [c EXCEPT !.i = @ + 1,
                                     !.comments = Append(@, Serialized(c.i + 1))],
                        <<<<CommentsCurrent(c.i, c.config.limit), 100>>>>)
           \/ Worker(t, Returns(c, result(c.comments)), <<>>)
           \/ \E e \in ProviderErrors :
                Worker(t, Returns(c, result(<<ErrorMarker(e)>>)), <<>>)

\* scrape_comments: replace_more, the report of 30 and comments.list()
scrape_comments_replace_more(t) ==
    /\ calls[t].st = "running"
    /\ calls[t].phase = "replace_more"
    /\ LET c == calls[t]
       IN  \/ \E top \in 0..MaxItems, all \in 0..(MaxItems + 1) :
                /\ all >= top
                /\ top = 0 => all = 0
                /\ Worker(t, [c EXCEPT !.phase = IF c.config.structured THEN "tree"
                                                 ELSE "flat",
                                       !.total = top, !.all = all],
                          <<<<30, 100>>>>)
           \/ \E e \in ProviderErrors : Worker(t, Raises(c, e), <<>>)

\* _build_comment_tree: one top-level comment and its report, or the return
scrape_comments_tree(t) ==
    /\ calls[t].st = "running"
    /\ calls[t].phase = "tree"
    /\ LET c == calls[t]
       IN  IF c.i < c.total
           THEN Worker(t, [c EXCEPT !.i = @ + 1,
                                    !.comments = Append(@, Serialized(c.i + 1))],
                       <<<<TreeCurrent(c.i, c.total), 100>>>>)
           ELSE Worker(t, Returns(c, [comments |-> c.comments,
                                      total_comments |-> c.all]), <<>>)

\* the flat loop up to its next report (every tenth comment), or the return
scrape_comments_flat(t) ==
    /\ calls[t].st = "running"
    /\ calls[t].phase = "flat"
    /\ LET c == calls[t]
           due == {k \in c.i..(c.all - 1) : k % 10 = 0}
           all_comments == [k \in 1..c.all |-> Serialized(k)]
       IN  IF due # {}
           THEN LET k == CHOOSE d \in due : \A d2 \in due : d <= d2
                IN  Worker(t, [c EXCEPT !.i = k + 1], <<<<FlatCurrent(k, c.all), 100>>>>)
           ELSE Worker(t, Returns(c, [comments |-> all_comments,
                                      total_comments |-> c.all]), <<>>)

TaskIds == 1..Len(tasks)

Next ==
    \/ \E user \in Creators, req \in JobCreate : create_job(user, req)
    \/ \E id \in JobIds, user \in Users : cancel_job(id, user)
    \/ lifespan_shutdown
    \/ \E t \in TaskIds : run_scrape_job_start(t)
    \/ \E t \in TaskIds : run_scrape_job_unstarted(t)
    \/ \E t \in TaskIds : run_scrape_job_resume(t)
    \/ \E t \in TaskIds : run_scrape_job_cancelled(t)
    \/ executor_take
    \/ \E t \in TaskIds : run_scrape_sync_entry(t)
    \/ \E t \in TaskIds : scrape_subreddit(t)
    \/ \E t \in TaskIds : scrape_redditor_submissions(t)
    \/ \E t \in TaskIds : scrape_redditor_comments(t)
    \/ \E t \in TaskIds : scrape_comments_replace_more(t)
    \/ \E t \in TaskIds : scrape_comments_tree(t)
    \/ \E t \in TaskIds : scrape_comments_flat(t)

Spec == Init /\ [][Next]_vars

\* the steps of task t: of its coroutine on the event loop, and of its
\* _run_scrape_sync call on a worker thread
TaskStep(t) ==
    /\ t \in TaskIds
    /\ \/ run_scrape_job_start(t)
       \/ run_scrape_job_unstarted(t)
       \/ run_scrape_job_resume(t)
       \/ run_scrape_job_cancelled(t)
WorkerStep(t) ==
    /\ t \in TaskIds
    /\ \/ run_scrape_sync_entry(t)
       \/ scrape_subreddit(t)
       \/ scrape_redditor_submissions(t)
       \/ scrape_redditor_comments(t)
       \/ scrape_comments_replace_more(t)
       \/ scrape_comments_tree(t)
       \/ scrape_comments_flat(t)

\* the event loop runs every task that is ready, the executor hands queued
\* calls to free threads, and every provider call returns or raises
Fairness ==
    /\ \A t \in 1..MaxJobs : WF_vars(TaskStep(t)) /\ WF_vars(WorkerStep(t))
    /\ WF_vars(executor_take)
FairSpec == Spec /\ Fairness

(***************************************************************************)
(* _format_error_message on its own, applied to exceptions of every class  *)
(* it tests and of classes outside the provider family.                    *)
(***************************************************************************)
\* prawcore's exception classes that carry a response, and statuses for it
ResponseClasses ==
    {"TooManyRequests", "Forbidden", "NotFound", "ServerError", "Redirect",
     "BadRequest", "ResponseException"}
StatusCodes == {200, 301, 302, 400, 401, 403, 404, 429, 500, 502, 503}
\* classes without a response: the rest of the provider family, and others
OtherClasses ==
    {"RequestException", "OAuthException", "InvalidInvocation",
     "PrawcoreException", "ValueError", "KeyError", "RuntimeError"}
Texts == {"received HTTP response", "detail"}
Exceptions ==
    {Exc(cls, code, text) : cls \in ResponseClasses, code \in StatusCodes,
                            text \in Texts}
    \cup {Exc(cls, 0, text) : cls \in OtherClasses, text \in Texts}

\* one call of the classifier: the step records the exception and the result
format_error_message ==
    /\ \E e \in Exceptions :
          last' = [op |-> "_format_error_message", id |-> 0, caller |-> "",
                   writes |-> <<>>, e |-> e, message |-> FormatErrorMessage(e)]
    /\ UNCHANGED <<scrape_jobs, ids_issued, background_jobs, tasks, calls,
                   pool_queue, shut, tally, user_profiles, streams>>

ClassifierSpec == Init /\ [][format_error_message]_vars

\* the listing requests among the create requests
ListingRequests == {req \in JobCreate : req.job_type = "subreddit"}

\* the program running listing jobs, with start_scrape_job also called for
\* jobs submitted before
SupervisorNext ==
    \/ \E user \in Creators, req \in ListingRequests : create_job(user, req)
    \/ \E id \in JobIds, user \in Creators : start_scrape_job(id, user)
    \/ \E id \in JobIds, user \in Users : cancel_job(id, user)
    \/ lifespan_shutdown
    \/ \E t \in TaskIds : run_scrape_job_start(t)
    \/ \E t \in TaskIds : run_scrape_job_unstarted(t)
    \/ \E t \in TaskIds : run_scrape_job_resume(t)
    \/ \E t \in TaskIds : run_scrape_job_cancelled(t)
    \/ executor_take
    \/ \E t \in TaskIds : run_scrape_sync_entry(t)
    \/ \E t \in TaskIds : scrape_subreddit(t)
SupervisorSpec == Init /\ [][SupervisorNext]_vars

(***************************************************************************)
(* _build_comment_tree on its own, applied to comment forests as           *)
(* submission.comments holds them after replace_more.  A forest is a       *)
(* sequence of nodes [kind, replies]: kind is "Comment" or "MoreComments"  *)
(* (an entry replace_more has left), replies the forest below the node.    *)
(* A node is identified by its path, the positions leading to it.          *)
(***************************************************************************)
\* the sequences of at most MaxReplies elements of S
SeqsUpTo(S) == UNION {[1..n -> S] : n \in 0..MaxReplies}

MoreComments == [kind |-> "MoreComments", replies |-> <<>>]
CommentNode(replies) == [kind |-> "Comment", replies |-> replies]

\* forests of one, two and three levels
Leaves == {CommentNode(<<>>), MoreComments}
Forests1 == SeqsUpTo(Leaves)
Forests2 == SeqsUpTo({CommentNode(f) : f \in Forests1} \cup {MoreComments})
Forests == SeqsUpTo({CommentNode(f) : f \in Forests2} \cup {MoreComments})

\* a recursion that keeps the depth
SameDepth(depth) == depth

\* process_comment(reply, depth + 1)
ChildDepth(depth) == depth + 1

\* process_comment(comment, depth) at the node with this path, and the loop
\* over comment.replies from the k-th reply on
RECURSIVE process_comment(_, _, _)
RECURSIVE ProcessReplies(_, _, _, _)
process_comment(comment, path, depth) ==
    IF comment.kind # "Comment" THEN None
    ELSE Some([id |-> path, depth |-> depth,
               replies |-> ProcessReplies(comment.replies, path, 1, ChildDepth(depth))])
ProcessReplies(replies, path, k, depth) ==
    IF k > Len(replies) THEN <<>>
    ELSE LET reply_dict == process_comment(replies[k], Append(path, k), depth)
         IN  (IF reply_dict # None THEN <<reply_dict[1]>> ELSE <<>>)
                 \o ProcessReplies(replies, path, k + 1, depth)

\* _build_comment_tree: the loop over the forest from the k-th entry on
RECURSIVE BuildCommentTree(_, _)
BuildCommentTree(comment_forest, k) ==
    IF k > Len(comment_forest) THEN <<>>
    ELSE LET comment_dict == process_comment(comment_forest[k], <<k>>, 0)
         IN  (IF comment_dict # None THEN <<comment_dict[1]>> ELSE <<>>)
                 \o BuildCommentTree(comment_forest, k + 1)

\* scrape_comments in structured mode, called once: the limit decides what
\* replace_more is asked for, the tree is built from the forest it leaves
build_comment_tree ==
    /\ last.op = "init"
    /\ \E limit \in {0, 1}, forest \in Forests :
          last' = [op |-> "_build_comment_tree", id |-> 0, caller |-> "",
                   writes |-> <<>>, limit |-> limit, forest |-> forest,
                   comments |-> BuildCommentTree(forest, 1)]
    /\ UNCHANGED <<scrape_jobs, ids_issued, background_jobs, tasks, calls,
                   pool_queue, shut, tally, user_profiles, streams>>

TreeSpec == Init /\ [][build_comment_tree]_vars

(***************************************************************************)
(* The worker pool under load: more listing jobs than the pool has worker  *)
(* threads, submitted by a user with stored credentials.                   *)
(***************************************************************************)
PoolRequests == {[job_type |-> "subreddit", config |-> SubredditConfig("hot", 1, None)]}

\* the event loop runs the tasks that are ready in the order they were
\* created in: task t takes its first step after every task created before
FirstReady(t) == \A u \in 1..(t - 1) : tasks[u].pc # "created"

PoolNext ==
    \/ \E user \in Creators, req \in PoolRequests : CreateJob(user, req, PoolJobs)
    \/ \E t \in TaskIds : FirstReady(t) /\ run_scrape_job_start(t)
    \/ \E t \in TaskIds : run_scrape_job_resume(t)
    \/ executor_take
    \/ \E t \in TaskIds : run_scrape_sync_entry(t)
    \/ \E t \in TaskIds : scrape_subreddit(t)
PoolSpec == Init /\ [][PoolNext]_vars

(***************************************************************************)
(* GET /{job_id}/stream: stream_job_progress and its event_generator.      *)
(*   stream.pc: "polling" (the generator is in its loop, in the sleep or   *)
(*   not yet started), "done" (it has left the loop); last_status and      *)
(*   last_progress are the generator's variables; sent is the event it     *)
(*   yielded last.                                                         *)
(***************************************************************************)
\* the events: the dict of a poll, and the error of a missing row
ProgressEvent(job) ==
    [status |-> job.status, progress |-> job.progress,
     error_message |-> job.error_message]
NotFoundEvent == [error |-> "Job not found"]

\* last_status = None, last_progress = -1
NewStream(id, user) ==
    [job_id |-> id, user_id |-> user, pc |-> "polling", last_status |-> None,
     last_progress |-> 0 - 1, sent |-> None]

\* a generator that sends every poll
ChangedAlways(st, job) == TRUE

\* if status != last_status or progress != last_progress
Changed(st, job) ==
    Some(job.status) # st.last_status \/ job.progress # st.last_progress

\* a generator that never leaves its loop on a status
StopsOnNone(status) == FALSE

\* a generator that does not leave its loop on cancelled
StopsOnResult(status) == status \in {"completed", "failed"}

\* a generator that leaves its loop only on completed
StopsOnCompleted(status) == status = "completed"

\* if status in ("completed", "failed", "cancelled"): break
Stops(status) == status \in {"completed", "failed", "cancelled"}

\* the handler: the ownership check, then the response with a new generator
stream_job_progress(id, user) ==
    /\ ~shut
    /\ id \in 1..ids_issued
    /\ Len(streams) < MaxStreams
    /\ LET result == SelectOwned(scrape_jobs, id, user)
       IN  /\ streams' = IF result = <<>> THEN streams
                         ELSE Append(streams, NewStream(id, user))
           /\ last' = Step("stream_job_progress", id, user, <<>>)
    /\ UNCHANGED <<scrape_jobs, ids_issued, background_jobs, tasks, calls,
                   pool_queue, shut, tally, user_profiles>>

\* one tick of the generator of stream s: the poll, the event if there is
\* one, and the break or the sleep
event_generator(s) ==
    /\ ~shut
    /\ streams[s].pc = "polling"
    /\ LET st == streams[s]
           id == st.job_id
       IN  IF id \notin DOMAIN scrape_jobs
           THEN /\ streams' = [streams EXCEPT ![s].pc = "done",
                                              ![s].sent = Some(NotFoundEvent)]
                /\ last' = [op |-> "event_generator", id |-> id, caller |-> st.user_id,
                            writes |-> <<>>, s |-> s, polled |-> None,
                            event |-> Some(NotFoundEvent)]
           ELSE LET job == scrape_jobs[id]
                    yields == Changed(st, job)
                    stops == Stops(job.status)
                IN  /\ streams' =
                          [streams EXCEPT
                             ![s].pc = IF stops THEN "done" ELSE "polling",
                             ![s].last_status = IF yields THEN Some(job.status) ELSE @,
                             ![s].last_progress = IF yields THEN job.progress ELSE @,
                             ![s].sent = IF yields THEN Some(ProgressEvent(job)) ELSE @]
                    /\ last' = [op |-> "event_generator", id |-> id,
                                caller |-> st.user_id, writes |-> <<>>, s |-> s,
                                polled |-> Some(ProgressEvent(job)),
                                event |-> IF yields THEN Some(ProgressEvent(job))
                                          ELSE None]
    /\ UNCHANGED <<scrape_jobs, ids_issued, background_jobs, tasks, calls,
                   pool_queue, shut, tally, user_profiles>>

StreamIds == 1..Len(streams)

\* the program while it serves requests, with clients that follow jobs
StreamNext ==
    \/ \E user \in Creators, req \in JobCreate : create_job(user, req)
    \/ \E id \in JobIds, user \in Users : cancel_job(id, user)
    \/ \E id \in JobIds, user \in Users : stream_job_progress(id, user)
    \/ \E s \in StreamIds : event_generator(s)
    \/ \E t \in TaskIds : run_scrape_job_start(t)
    \/ \E t \in TaskIds : run_scrape_job_resume(t)
    \/ \E t \in TaskIds : run_scrape_job_cancelled(t)
    \/ executor_take
    \/ \E t \in TaskIds : run_scrape_sync_entry(t)
    \/ \E t \in TaskIds : scrape_subreddit(t)
    \/ \E t \in TaskIds : scrape_redditor_submissions(t)
    \/ \E t \in TaskIds : scrape_redditor_comments(t)
    \/ \E t \in TaskIds : scrape_comments_replace_more(t)
    \/ \E t \in TaskIds : scrape_comments_tree(t)
    \/ \E t \in TaskIds : scrape_comments_flat(t)
StreamSpec == Init /\ [][StreamNext]_vars

\* the event loop resumes every generator when its sleep is over
StreamStep(s) == s \in StreamIds /\ event_generator(s)
StreamFairness == \A s \in 1..MaxStreams : WF_vars(StreamStep(s))

\* the same program followed by one client, scheduled fairly
OneStreamNext ==
    \/ \E user \in Creators, req \in JobCreate : create_job(user, req)
    \/ \E id \in JobIds, user \in Users : cancel_job(id, user)
    \/ \E id \in JobIds, user \in Users :
          Len(streams) < 1 /\ stream_job_progress(id, user)
    \/ \E s \in StreamIds : event_generator(s)
    \/ \E t \in TaskIds : run_scrape_job_start(t)
    \/ \E t \in TaskIds : run_scrape_job_resume(t)
    \/ \E t \in TaskIds : run_scrape_job_cancelled(t)
    \/ executor_take
    \/ \E t \in TaskIds : run_scrape_sync_entry(t)
    \/ \E t \in TaskIds : scrape_subreddit(t)
    \/ \E t \in TaskIds : scrape_redditor_submissions(t)
    \/ \E t \in TaskIds : scrape_redditor_comments(t)
    \/ \E t \in TaskIds : scrape_comments_replace_more(t)
    \/ \E t \in TaskIds : scrape_comments_tree(t)
    \/ \E t \in TaskIds : scrape_comments_flat(t)
StreamFairSpec == Init /\ [][OneStreamNext]_vars /\ Fairness /\ StreamFairness

(***************************************************************************)
(* Properties.                                                             *)
(***************************************************************************)
Rows == DOMAIN scrape_jobs
IsSet(v) == v # None

\* the step just taken was operation op for job id
Did(op, id) == last.op = op /\ last.id = id

\* C1: in every reachable state a job row has result_data set if and only
\* if its status is completed.
C1_ResultIffCompleted ==
    \A id \in Rows :
        IsSet(scrape_jobs[id].result_data) <=> scrape_jobs[id].status = "completed"

\* a completed row holding the result its worker returned
C1_Witness ==
    \E t \in TaskIds :
        /\ tasks[t].job_id \in Rows
        /\ scrape_jobs[tasks[t].job_id].status = "completed"
        /\ scrape_jobs[tasks[t].job_id].result_data = calls[t].result
        /\ IsSet(calls[t].result)

\* C2: in every reachable state a job row has error_message set if and only
\* if its status is failed, and no row has both result_data and
\* error_message set.
C2_ErrorIffFailed ==
    \A id \in Rows :
        /\ IsSet(scrape_jobs[id].error_message) <=> scrape_jobs[id].status = "failed"
        /\ ~(IsSet(scrape_jobs[id].result_data) /\ IsSet(scrape_jobs[id].error_message))

\* a row failed by the exception its worker raised, the message stored
C2_Witness ==
    \E t \in TaskIds :
        /\ tasks[t].job_id \in Rows
        /\ calls[t].st = "raised"
        /\ scrape_jobs[tasks[t].job_id].status = "failed"
        /\ scrape_jobs[tasks[t].job_id].error_message
              = Some(FormatErrorMessage(calls[t].exc[1]))

\* C3: once a row's status is completed, failed or cancelled no step changes
\* it to another value; the row can only be deleted.
C3_TerminalAbsorbing ==
    [][\A id \in Rows :
          (scrape_jobs[id].status \in Terminal /\ id \in DOMAIN scrape_jobs')
              => scrape_jobs'[id].status = scrape_jobs[id].status]_vars

\* a row cancelled by the DELETE handler on which the task's own
\* cancellation write then landed
C3_Witness ==
    \E id \in Rows :
        /\ scrape_jobs[id].status = "cancelled"
        /\ tally[id].nterminal = 2
        /\ Did("run_scrape_job", id)
        /\ last.writes # <<>>
        /\ last.writes[1].hit

\* the progress writes of the step just taken
ProgressWrites ==
    {k \in 1..Len(last.writes) : last.writes[k].by = "update_progress"}

\* C4: every value the progress sink writes for a report (current, total)
\* equals floor(current * 100 / total) when total > 0 and 0 otherwise, capped
\* at 99, and so lies in 0..99.
C4_ProgressIsExactPercent ==
    \A k \in ProgressWrites :
        LET w == last.writes[k]
            current == w.report[1]
            total == w.report[2]
            percent == IF total > 0 THEN (current * 100) \div total ELSE 0
        IN  /\ w.data.progress = Min(percent, 99)
            /\ w.data.progress \in 0..99

\* C5: 100 is written to progress only by the final success write, which
\* sets status completed, and at most once per job; a row's progress is 100
\* exactly while its status is completed.
C5_HundredOnlyAtCompletion ==
    /\ \A k \in 1..Len(last.writes) :
          IsWriteOf100(last.writes[k])
              => /\ last.writes[k].by = "run_scrape_job"
                 /\ last.writes[k].data.status = "completed"
    /\ \A id \in JobIds : tally[id].n100 <= 1
    /\ \A id \in Rows :
          scrape_jobs[id].progress = 100 <=> scrape_jobs[id].status = "completed"

\* the success write just landed on a row, the one write of 100 for its job
C5_Witness ==
    \E id \in Rows :
        /\ Did("run_scrape_job", id)
        /\ last.writes # <<>>
        /\ IsWriteOf100(last.writes[1])
        /\ tally[id].n100 = 1
        /\ scrape_jobs[id].status = "completed"
        /\ scrape_jobs[id].progress = 100

C7_ProgressFrozenAfterFailedOrCancelled ==
    [][\A id \in Rows :
          (/\ id \in DOMAIN scrape_jobs'
           /\ scrape_jobs[id].status \in {"failed", "cancelled"})
              => scrape_jobs'[id].progress = scrape_jobs[id].progress]_vars

\* C7 amended: the transition to failed or cancelled leaves progress as it
\* is; the progress of a failed row never changes; the progress of a
\* cancelled row changes only by a progress write of the job's worker.
C7_ProgressAfterFailedOrCancelled ==
    [][\A id \in Rows :
          id \in DOMAIN scrape_jobs' =>
            LET row == scrape_jobs[id]
                row2 == scrape_jobs'[id]
            IN  /\ (row2.status \in {"failed", "cancelled"} /\ row.status # row2.status)
                      => row2.progress = row.progress
                /\ row.status = "failed" => row2.progress = row.progress
                /\ (row.status = "cancelled" /\ row2.progress # row.progress)
                      => /\ last'.op = "_run_scrape_sync"
                         /\ last'.id = id
                         /\ row2.progress \in 0..99]_vars

\* a cancelled row whose task has ended and whose worker has just written a
\* progress value
C7_Witness ==
    \E t \in TaskIds :
        /\ tasks[t].pc = "done"
        /\ tasks[t].outcome = "cancelled"
        /\ tasks[t].job_id \in Rows
        /\ scrape_jobs[tasks[t].job_id].status = "cancelled"
        /\ Did("_run_scrape_sync", tasks[t].job_id)
        /\ last.writes # <<>>
        /\ last.writes[1].hit
        /\ scrape_jobs[tasks[t].job_id].progress > 0

\* the step being taken is a DELETE of job id requested by user
CancelRequest(id, user) ==
    /\ last'.op = "cancel_job"
    /\ last'.id = id
    /\ last'.caller = user

\* C8 as stated, for requests that pass the ownership check: whenever the
\* registry holds an entry for the job, whatever its stored status, the
\* request signals the task and the entry is gone when the request returns,
\* the task not having handled the signal yet; with no entry the registry
\* and the tasks are left as they are.
C8_CancelWheneverRegistered ==
    [][\A id \in JobIds, user \in Users :
          (CancelRequest(id, user) /\ SelectOwned(scrape_jobs, id, user) # <<>>)
              => IF id \in DOMAIN background_jobs
                 THEN LET t == background_jobs[id]
                      IN  /\ id \notin DOMAIN background_jobs'
                          /\ tasks'[t].must_cancel
                          /\ tasks'[t].pc = tasks[t].pc
                 ELSE /\ background_jobs' = background_jobs
                      /\ tasks' = tasks]_vars

\* C8 amended: a cancel request signals the job's task and removes its
\* registry entry, the task not having handled the signal yet, exactly when
\* the caller owns the row, the stored status is running and the registry
\* holds an entry; any other request leaves the registry, the tasks and the
\* executor calls unchanged.
C8_CancelWhenRunningAndRegistered ==
    [][\A id \in JobIds, user \in Users :
          CancelRequest(id, user)
              => LET result == SelectOwned(scrape_jobs, id, user)
                 IN  IF /\ result # <<>>
                        /\ result[1].status = "running"
                        /\ id \in DOMAIN background_jobs
                     THEN LET t == background_jobs[id]
                          IN  /\ background_jobs' = RegistryDel(background_jobs, id)
                              /\ tasks' = [tasks EXCEPT ![t].must_cancel = TRUE]
                              /\ tasks[t].pc # "done"
                     ELSE /\ background_jobs' = background_jobs
                          /\ tasks' = tasks
                          /\ calls' = calls]_vars

\* a cancel request has just signalled an awaiting task and unregistered it
C8_Witness ==
    \E t \in TaskIds :
        /\ Did("cancel_job", tasks[t].job_id)
        /\ last.writes # <<>>
        /\ tasks[t].job_id \notin DOMAIN background_jobs
        /\ tasks[t].must_cancel
        /\ tasks[t].pc = "awaiting"

\* C9: a task signalled while it awaits the worker pool stays suspended
\* until it handles the signal, and handling it ends the task as cancelled
\* with one write that sets status cancelled and carries neither an
\* error_message nor a result_data, also when the worker has already
\* returned or raised; the row of a task that ended cancelled, while it is
\* stored, has status cancelled, no error_message and no result_data.
C9_CancelledNotFailed ==
    [][\A t \in TaskIds :
          LET id == tasks[t].job_id
          IN  /\ (tasks[t].pc = "awaiting" /\ tasks[t].must_cancel
                    /\ tasks'[t] # tasks[t])
                    => /\ tasks'[t].pc = "done"
                       /\ tasks'[t].outcome = "cancelled"
                       /\ last'.op = "run_scrape_job"
                       /\ last'.id = id
                       /\ Len(last'.writes) = 1
                       /\ last'.writes[1].data.status = "cancelled"
                       /\ "error_message" \notin DOMAIN last'.writes[1].data
                       /\ "result_data" \notin DOMAIN last'.writes[1].data
                       /\ last'.writes[1].hit = (id \in Rows)
              /\ (tasks'[t].outcome = "cancelled" /\ id \in DOMAIN scrape_jobs')
                    => /\ scrape_jobs'[id].status = "cancelled"
                       /\ ~IsSet(scrape_jobs'[id].error_message)
                       /\ ~IsSet(scrape_jobs'[id].result_data)]_vars

\* a task whose worker had already finished has just handled the signal
C9_Witness ==
    \E t \in TaskIds :
        /\ tasks[t].pc = "done"
        /\ tasks[t].outcome = "cancelled"
        /\ calls[t].st \in {"returned", "raised"}
        /\ Did("run_scrape_job", tasks[t].job_id)
        /\ last.writes # <<>>
        /\ last.writes[1].hit
        /\ scrape_jobs[tasks[t].job_id].status = "cancelled"
        /\ IsSet(scrape_jobs[tasks[t].job_id].completed_at)

\* C10: a call that a worker thread is running changes only by that
\* worker's own steps, which keep it running or end it by a return or a
\* raise, whatever happens to the task; each progress write of the worker
\* lands on the job's row while the row is stored, whether or not the task
\* has been cancelled and unregistered.
C10_WorkerOutlivesCancel ==
    [][\A t \in TaskIds :
          LET id == tasks[t].job_id
          IN  calls[t].st = "running"
                => /\ calls'[t] # calls[t]
                        => /\ last'.op = "_run_scrape_sync"
                           /\ last'.id = id
                           /\ calls'[t].st \in {"running", "returned", "raised"}
                   /\ (last'.op = "_run_scrape_sync" /\ last'.id = id)
                        => \A k \in 1..Len(last'.writes) :
                              /\ id \in Rows => last'.writes[k].hit
                              /\ (id \in Rows /\ k = Len(last'.writes))
                                    => scrape_jobs'[id].progress
                                          = last'.writes[k].data.progress]_vars

\* the worker of a cancelled and unregistered task has just written progress
C10_Witness ==
    \E t \in TaskIds :
        /\ tasks[t].pc = "done"
        /\ tasks[t].outcome = "cancelled"
        /\ tasks[t].job_id \notin DOMAIN background_jobs
        /\ calls[t].st = "running"
        /\ Did("_run_scrape_sync", tasks[t].job_id)
        /\ last.writes # <<>>
        /\ last.writes[1].hit
        /\ scrape_jobs[tasks[t].job_id].progress = last.writes[1].data.progress

\* C11: the registry never holds an entry for a job whose execution task
\* has finished.
C11_NoEntryForFinishedTask ==
    \A id \in DOMAIN background_jobs : tasks[background_jobs[id]].pc # "done"

\* C12: when create_job returns, start_scrape_job having been called, the
\* registry holds the new task under the job's id, the task has not run, no
\* call is queued and no update of the row has been issued; the row is
\* pending, without started_at, for as long as the task has not run its
\* first step.
C12_SubmitReturnsAtOnce ==
    /\ \A id \in Rows :
          Did("create_job", id)
              => /\ id \in DOMAIN background_jobs
                 /\ tasks[background_jobs[id]].job_id = id
                 /\ tasks[background_jobs[id]].pc = "created"
                 /\ calls[background_jobs[id]].st = "none"
                 /\ last.writes = <<>>
    /\ \A t \in TaskIds :
          (tasks[t].pc = "created" /\ tasks[t].job_id \in Rows)
              => /\ scrape_jobs[tasks[t].job_id].status = "pending"
                 /\ scrape_jobs[tasks[t].job_id].progress = 0
                 /\ ~IsSet(scrape_jobs[tasks[t].job_id].started_at)

\* create_job has just returned
C12_Witness ==
    \E id \in Rows :
        /\ Did("create_job", id)
        /\ id \in DOMAIN background_jobs
        /\ tasks[background_jobs[id]].pc = "created"
        /\ scrape_jobs[id].status = "pending"

\* C13: when start_scrape_job is called for a job id under which the
\* registry holds a task that has not finished, that task stays the one
\* registered under the id.
C13_ActiveHandleNotReplaced ==
    [][\A id \in JobIds :
          (/\ last'.op = "start_scrape_job"
           /\ last'.id = id
           /\ id \in DOMAIN background_jobs
           /\ tasks[background_jobs[id]].pc # "done")
              => /\ id \in DOMAIN background_jobs'
                 /\ background_jobs'[id] = background_jobs[id]]_vars

\* C14: every job that is registered once the lifespan has shut down
\* reaches a terminal status.
C14_ShutdownTerminatesAll ==
    \A id \in JobIds :
        [](((shut /\ id \in DOMAIN background_jobs /\ id \in Rows)
              => <>(id \in Rows /\ scrape_jobs[id].status \in Terminal)))

\* C15: at most one write puts a job into a terminal status; each such write
\* is issued by the executing task and sets completed_at; every row in a
\* terminal status has completed_at set and every row that has left pending
\* has started_at set.
C15_TerminatedExactlyOnce ==
    /\ \A id \in JobIds : tally[id].nterminal <= 1
    /\ \A k \in 1..Len(last.writes) :
          IsTerminalWrite(last.writes[k])
              => /\ last.writes[k].by = "run_scrape_job"
                 /\ "completed_at" \in DOMAIN last.writes[k].data
    /\ \A id \in Rows :
          /\ scrape_jobs[id].status \in Terminal => IsSet(scrape_jobs[id].completed_at)
          /\ scrape_jobs[id].status # "pending" => IsSet(scrape_jobs[id].started_at)

\* the users without stored provider credentials
NotConfigured ==
    {user \in DOMAIN user_profiles : user_profiles[user] \in {"absent", "no_client_id"}}

\* C16: when the submitting user has no stored provider credentials, the
\* first step of the job's task writes running and then failed with the
\* classifier's message for the credentials error, and ends the task; no call
\* for the job is ever handed to the worker pool.
C16_NoCredentialsFailsBeforeDispatch ==
    [][\A t \in TaskIds :
          LET id == tasks[t].job_id
          IN  tasks[t].user_id \in NotConfigured
                => /\ calls'[t].st = "none"
                   /\ \A k \in 1..Len(pool_queue') : pool_queue'[k] # t
                   /\ (/\ tasks[t].pc = "created"
                       /\ tasks'[t].pc # "created"
                       /\ tasks'[t].outcome # "unstarted"
                       /\ id \in Rows)
                         => /\ tasks'[t].pc = "done"
                            /\ tasks'[t].outcome = "failed"
                            /\ Len(last'.writes) = 2
                            /\ last'.writes[1].data = RunningUpdate
                            /\ last'.writes[2].data.status = "failed"
                            /\ scrape_jobs'[id].status = "failed"
                            /\ scrape_jobs'[id].error_message =
                                 Some(FormatErrorMessage(Exc("ValueError", 0,
                                        "Reddit credentials not configured.")))
                            /\ IsSet(scrape_jobs'[id].started_at)]_vars

\* the job of a user without credentials has just failed, nothing dispatched
C16_Witness ==
    \E t \in TaskIds :
        /\ tasks[t].user_id \in NotConfigured
        /\ tasks[t].outcome = "failed"
        /\ Did("run_scrape_job", tasks[t].job_id)
        /\ Len(last.writes) = 2
        /\ tasks[t].job_id \in Rows
        /\ scrape_jobs[tasks[t].job_id].status = "failed"
        /\ IsSet(scrape_jobs[tasks[t].job_id].error_message)
        /\ calls[t].st = "none"

\* a listing job with category search and no search query
SearchWithoutQuery(row) ==
    /\ row.job_type = "subreddit"
    /\ "category" \in DOMAIN row.config
    /\ row.config.category = "search"
    /\ row.config.search_query = None

\* C17: no call for a listing job with category search and no search query
\* is ever handed to the worker pool, and no progress write is issued for it.
C17_SearchWithoutQueryNotDispatched ==
    \A t \in TaskIds :
        (tasks[t].job_id \in Rows /\ SearchWithoutQuery(scrape_jobs[tasks[t].job_id]))
            => /\ calls[t].st = "none"
               /\ \A k \in 1..Len(pool_queue) : pool_queue[k] # t
               /\ Did("_run_scrape_sync", tasks[t].job_id) => last.writes = <<>>

\* the classifier has just been applied
Classified == last.op = "_format_error_message"

\* C18: the classifier maps every rate-limit exception, whatever status its
\* response carries, to the rate-limit message, and to no other message,
\* although the exception also passes the response-status check and the
\* check for the provider's base class.
C18_RateLimitFirst ==
    (Classified /\ last.e.cls = "TooManyRequests")
        => /\ IsInstance(last.e, "ResponseException")
           /\ IsInstance(last.e, "PrawcoreException")
           /\ last.message = Msg("Rate limited by Reddit API (HTTP 429).", 0, "")
           /\ last.message # BranchMessage("ResponseException", last.e)
           /\ last.message # BranchMessage("PrawcoreException", last.e)

\* a rate-limit exception carrying a 429 response has just been classified
C18_Witness ==
    /\ Classified
    /\ last.e.cls = "TooManyRequests"
    /\ last.e.status_code = 429
    /\ last.message.head = "Rate limited by Reddit API (HTTP 429)."

\* the taxonomy entry of a message, and the entry of each specific class
Taxonomy(message) ==
    CASE message.head = "Rate limited by Reddit API (HTTP 429)." -> "RateLimited"
      [] message.head = "Authentication failed (HTTP 401)." -> "Unauthorized"
      [] message.head \in
           {"Access forbidden (HTTP 403). You may not have permission",
            "Access forbidden (HTTP 403). This subreddit may be private"} -> "Forbidden"
      [] message.head \in {"Resource not found (HTTP 404).", "Not found (HTTP 404)."}
           -> "NotFound"
      [] message.head \in
           {"Reddit server error (HTTP 500).",
            "Reddit server error. Reddit is experiencing technical difficulties."}
           -> "ServerError"
      [] message.head = "Reddit service unavailable (HTTP 503)." -> "ServiceUnavailable"
      [] message.head \in
           {"Reddit API error (HTTP status_code): str(e)",
            "Reddit API error (HTTP <Response [status_code]>): str(e)",
            "Reddit API error (HTTP None): str(e)", "Reddit API error: str(e)"}
           -> "GenericProviderError"
      [] message.head = "Network error connecting to Reddit." -> "NetworkError"
      [] message.head = "OAuth authentication error." -> "OAuthError"
      [] message.head = "Redirect detected." -> "Redirected"
      [] OTHER -> "Unknown"

\* C19: for every exception of the classes Forbidden, NotFound, ServerError
\* and Redirect, whatever status its response carries, the classifier
\* returns the message of that class's own check, hence that class's
\* taxonomy entry.
C19_SpecificClassOwnEntry ==
    (Classified /\ last.e.cls \in {"Forbidden", "NotFound", "ServerError", "Redirect"})
        => /\ Taxonomy(last.message) = Taxonomy(BranchMessage(last.e.cls, last.e))
           /\ last.message = BranchMessage(last.e.cls, last.e)

\* a fetch of the profile scrape raised and left an error marker
HasErrorMarker(records) == \E k \in 1..Len(records) : "error" \in DOMAIN records[k]
RaisedInsideCall(c) ==
    \/ HasErrorMarker(c.submissions)
    \/ HasErrorMarker(c.comments)
    \/ /\ c.st = "returned"
       /\ "comments" \in DOMAIN c.result[1]
       /\ HasErrorMarker(c.result[1].comments)

\* the failure write of the step just taken is the one for exception e
IsFailureWriteFor(w, e) ==
    /\ w.by = "run_scrape_job"
    /\ w.data.status = "failed"
    /\ w.data.error_message = Some(FormatErrorMessage(e))

\* C20 as stated: a job in whose worker call an exception was raised never
\* ends completed, and a task that ends failed has written the classifier's
\* message for its exception.
C20_EveryExceptionFails ==
    \A t \in TaskIds :
        /\ (RaisedInsideCall(calls[t]) /\ tasks[t].job_id \in Rows)
              => scrape_jobs[tasks[t].job_id].status # "completed"
        /\ (tasks[t].outcome = "failed" /\ calls[t].st = "raised"
              /\ Did("run_scrape_job", tasks[t].job_id))
              => IsFailureWriteFor(last.writes[Len(last.writes)], calls[t].exc[1])

\* C20 amended: an exception that leaves the stretch before the dispatch, or
\* that the worker call raises to a task that has not been cancelled, ends
\* the task failed with one failure write carrying the classifier's message
\* for that exception, which for an exception outside the provider family
\* holds the class name and the text; a task ends completed only when its
\* call returned.
C20_PropagatedExceptionFails ==
    [][\A t \in TaskIds :
          LET id == tasks[t].job_id
              tbl == TableUpdate(scrape_jobs, id, RunningUpdate)
              error == PreDispatchError(tbl, id, user_profiles[tasks[t].user_id])
              raised == IF tasks[t].pc = "created" THEN error ELSE calls[t].exc
              w == last'.writes[Len(last'.writes)]
          IN  (/\ ~tasks[t].must_cancel
               /\ tasks[t].pc # "done"
               /\ tasks'[t].pc # tasks[t].pc)
                => /\ raised # None
                      => /\ tasks'[t].pc = "done"
                         /\ tasks'[t].outcome = "failed"
                         /\ last'.op = "run_scrape_job"
                         /\ IsFailureWriteFor(w, raised[1])
                         /\ ~IsInstance(raised[1], "PrawcoreException")
                              => w.data.error_message
                                    = Some(Msg(raised[1].cls, 0, raised[1].text))
                         /\ id \in Rows
                              => /\ scrape_jobs'[id].status = "failed"
                                 /\ scrape_jobs'[id].error_message = w.data.error_message
                                 /\ ~IsSet(scrape_jobs'[id].result_data)
                   /\ tasks'[t].outcome = "completed"
                        => raised = None /\ calls[t].st = "returned"]_vars

\* a worker call has raised an exception outside the provider family and the
\* task has just written the failure
C20_Witness ==
    \E t \in TaskIds :
        /\ tasks[t].outcome = "failed"
        /\ calls[t].st = "raised"
        /\ ~IsInstance(calls[t].exc[1], "PrawcoreException")
        /\ Did("run_scrape_job", tasks[t].job_id)
        /\ tasks[t].job_id \in Rows
        /\ scrape_jobs[tasks[t].job_id].status = "failed"
        /\ scrape_jobs[tasks[t].job_id].error_message
              = Some(Msg(calls[t].exc[1].cls, 0, calls[t].exc[1].text))

\* the step being taken is a tick of the generator of stream s
Tick(s) == last'.op = "event_generator" /\ last'.s = s

\* C21: on a tick of a progress stream an event is sent exactly when the
\* (status, progress, error_message) tuple read on that tick differs from
\* the event sent last, the event is that tuple, and so no two consecutive
\* events of a stream are equal; the first tick of every stream sends an
\* event when the row exists, whatever other streams of the same job have
\* sent.
C21_EmitOnlyOnChange ==
    [][\A s \in StreamIds :
          Tick(s) =>
            LET st == streams[s]
                id == st.job_id
            IN  /\ last'.event # None
                     => /\ last'.event # st.sent
                        /\ streams'[s].sent = last'.event
                /\ last'.event = None => streams'[s].sent = st.sent
                /\ id \in Rows
                     => /\ last'.polled = Some(ProgressEvent(scrape_jobs[id]))
                        /\ last'.event # None <=> last'.polled # st.sent
                        /\ last'.event # None => last'.event = last'.polled
                        /\ st.last_status = None => last'.event # None]_vars

\* a tick of a stream has just sent the event that another stream of the
\* same job, still polling, had sent before
C21_Witness ==
    /\ last.op = "event_generator"
    /\ last.event # None
    /\ last.polled # None
    /\ \E r \in StreamIds :
          /\ r # last.s
          /\ streams[r].job_id = streams[last.s].job_id
          /\ streams[r].sent = last.event
          /\ streams[r].pc = "polling"

\* an event that ends a stream: a terminal status, or the missing row
IsFinalEvent(ev) ==
    \/ ev = NotFoundEvent
    \/ "status" \in DOMAIN ev /\ ev.status \in Terminal

\* C22: a progress stream has left its loop exactly when the event it sent
\* last carries a terminal status or is the job-not-found error, which is
\* sent only when the row is missing; the tick that sends such an event is
\* the one that leaves the loop, so every event sent before has a
\* non-terminal status; a stream that has left its loop polls no more and
\* sends nothing more.
C22_EndsExactlyOnFinalEvent ==
    [][\A s \in StreamIds :
          LET st == streams[s]
              st2 == streams'[s]
          IN  /\ st2.pc = "done" <=> (st2.sent # None /\ IsFinalEvent(st2.sent[1]))
              /\ st.pc = "polling" => (st.sent = None \/ ~IsFinalEvent(st.sent[1]))
              /\ st.pc = "done" => (st2 = st /\ ~Tick(s))
              /\ (Tick(s) /\ last'.event = Some(NotFoundEvent))
                    => st.job_id \notin Rows
              /\ (Tick(s) /\ st2.pc = "done")
                    => (last'.event # None /\ IsFinalEvent(last'.event[1]))]_vars

\* a stream has just sent the completed event and left its loop
C22_Witness ==
    /\ last.op = "event_generator"
    /\ last.event # None
    /\ last.polled # None
    /\ last.event[1].status = "completed"
    /\ last.event[1].progress = 100
    /\ streams[last.s].pc = "done"
    /\ streams[last.s].sent = last.event

\* C23: under fair scheduling of the generators, the tasks and the worker
\* pool, every progress stream eventually leaves its loop, its last event
\* carrying a terminal status or the job-not-found error.
C23_StreamTerminates ==
    \A s \in 1..MaxStreams :
        [](s \in StreamIds
             => <>(/\ s \in StreamIds
                   /\ streams[s].pc = "done"
                   /\ streams[s].sent # None
                   /\ IsFinalEvent(streams[s].sent[1])))

\* a stream opened on a pending job has followed it to the failed status
C23_Witness ==
    \E s \in StreamIds :
        /\ streams[s].pc = "done"
        /\ streams[s].sent # None
        /\ streams[s].sent[1] # NotFoundEvent
        /\ streams[s].sent[1].status = "failed"
        /\ streams[s].sent[1].progress > 0

\* stream s has just been opened by its owner on a job whose row a cancel
\* request has set to cancelled
OpenedAfterCancel(s) ==
    /\ s = Len(streams)
    /\ last.op = "stream_job_progress"
    /\ last.id = streams[s].job_id
    /\ last.caller = streams[s].user_id
    /\ streams[s].last_status = None
    /\ streams[s].job_id \in Rows
    /\ scrape_jobs[streams[s].job_id].status = "cancelled"

\* C24 as stated: a stream opened after a cancel request for a running job
\* eventually sends an event with a terminal status.
C24_SeesTerminalAfterCancel ==
    \A s \in 1..MaxStreams :
        [](OpenedAfterCancel(s)
             => <>(/\ s \in StreamIds
                   /\ streams[s].sent # None
                   /\ streams[s].sent[1] # NotFoundEvent
                   /\ streams[s].sent[1].status \in Terminal))

\* C24 amended: a stream opened after a cancel request for a running job
\* eventually leaves its loop, and the only event it sends is the one with
\* status cancelled, whatever progress the worker has written meanwhile, or
\* the job-not-found error when the row has been deleted meanwhile.
C24_SeesCancelledOrNotFound ==
    \A s \in 1..MaxStreams :
        /\ [](OpenedAfterCancel(s)
                => <>(/\ s \in StreamIds
                      /\ streams[s].pc = "done"
                      /\ streams[s].sent # None
                      /\ \/ streams[s].sent[1] = NotFoundEvent
                         \/ streams[s].sent[1].status = "cancelled"))
        /\ [](OpenedAfterCancel(s)
                => []((s \in StreamIds /\ streams[s].sent # None)
                        => streams[s].pc = "done"))

\* a stream has just sent the cancelled event while the job's worker, whose
\* task has ended cancelled, is still running and has written progress
C24_Witness ==
    /\ last.op = "event_generator"
    /\ last.event # None
    /\ last.polled # None
    /\ last.event[1].status = "cancelled"
    /\ last.event[1].progress > 0
    /\ streams[last.s].last_status = Some("cancelled")
    /\ \E t \in TaskIds :
          /\ tasks[t].job_id = last.id
          /\ tasks[t].outcome = "cancelled"
          /\ calls[t].st = "running"

\* the calls waiting in the executor's queue
Queued == {t \in 1..Len(calls) : calls[t].st = "queued"}

\* C25: at most 4 calls are running on worker threads at any time, however
\* many jobs have been dispatched; a call that is dispatched waits in the
\* pool's queue, its job's row having status running and no progress
\* written, and it starts only by the executor handing it, as the oldest in
\* the queue, to a thread while fewer than 4 calls are running; while 4 are
\* running no call starts.
C25_AtMostFourCalls ==
    [][/\ Cardinality(Running) <= 4
       /\ Cardinality(Running') <= 4
       /\ \A t \in TaskIds :
             LET id == tasks[t].job_id
             IN  /\ calls[t].st = "queued"
                    => /\ \E k \in 1..Len(pool_queue) : pool_queue[k] = t
                       /\ id \in Rows
                       /\ scrape_jobs[id].status = "running"
                       /\ scrape_jobs[id].progress = 0
                 /\ (calls[t].st # "running" /\ calls'[t].st = "running")
                    => /\ calls[t].st = "queued"
                       /\ Cardinality(Running) < 4
                       /\ last'.op = "executor"
                       /\ Head(pool_queue) = t
                 /\ (calls[t].st = "none" /\ calls'[t].st # "none")
                    => /\ calls'[t].st = "queued"
                       /\ pool_queue' = Append(pool_queue, t)]_vars

\* four calls are running, one of them has written progress, and the call of
\* a fifth job waits in the queue, its row running with progress 0
C25_Witness ==
    /\ Cardinality(Running) = 4
    /\ \E t \in Running :
          /\ tasks[t].job_id \in Rows
          /\ scrape_jobs[tasks[t].job_id].progress > 0
    /\ \E t \in Queued :
          /\ pool_queue = <<t>>
          /\ scrape_jobs[tasks[t].job_id].status = "running"
          /\ scrape_jobs[tasks[t].job_id].progress = 0

\* the single-element lists a failed fetch of a profile scrape may leave
FailedFetchLists == {<<[error |-> e.text]>> : e \in ProviderErrors}

\* C26: in a profile scrape a fetch that raises, records fetched or not,
\* leaves as its field of the result a one-element list holding the error
\* marker with the exception's text; after a failed fetch of the submissions
\* the report of 50 is made and the comments phase runs, every progress
\* write of which is 50 or more; the call returns, and a task not cancelled
\* meanwhile ends completed, the row holding that result.
C26_FetchFailureDegrades ==
    [][\A t \in TaskIds :
          LET c == calls[t]
              c2 == calls'[t]
              id == tasks[t].job_id
          IN  (c.job_type = "redditor" /\ c.st \in {"running", "returned"})
                => /\ (c.phase = "submissions" /\ c2.phase = "comments"
                         /\ c2.submissions # c.submissions)
                      => /\ c2.submissions \in FailedFetchLists
                         /\ c2.phase = "comments"
                         /\ c2.st = "running"
                         /\ c2.i = 0
                         /\ Len(last'.writes) = 1
                         /\ last'.writes[1].data = [progress |-> 50]
                   /\ (c.phase = "comments" /\ c.st = "running" /\ c2 # c)
                      => /\ \A k \in 1..Len(last'.writes) :
                               last'.writes[k].data.progress >= 50
                         /\ c2.submissions = c.submissions
                         /\ c2.st \in {"running", "returned"}
                         /\ c2.st = "returned"
                              => /\ c2.result[1].submissions = c.submissions
                                 /\ \/ c2.result[1].comments = c.comments
                                    \/ c2.result[1].comments \in FailedFetchLists
                   /\ (c.st = "returned" /\ tasks[t].pc = "awaiting"
                         /\ ~tasks[t].must_cancel /\ tasks'[t].pc = "done")
                      => /\ tasks'[t].outcome = "completed"
                         /\ id \in Rows
                              => /\ scrape_jobs'[id].status = "completed"
                                 /\ scrape_jobs'[id].result_data = c.result
                                 /\ ~IsSet(scrape_jobs'[id].error_message)]_vars

\* a profile job has just ended completed, its result holding an error
\* marker as the submissions and a fetched comment
C26_Witness ==
    \E t \in TaskIds :
        /\ Did("run_scrape_job", tasks[t].job_id)
        /\ tasks[t].outcome = "completed"
        /\ calls[t].job_type = "redditor"
        /\ tasks[t].job_id \in Rows
        /\ scrape_jobs[tasks[t].job_id].status = "completed"
        /\ scrape_jobs[tasks[t].job_id].result_data = calls[t].result
        /\ calls[t].result[1].submissions \in FailedFetchLists
        /\ calls[t].result[1].comments = <<Serialized(1)>>

\* the positions of the comment-type entries of a forest, in order
RECURSIVE CommentPositions(_, _)
CommentPositions(forest, k) ==
    IF k > Len(forest) THEN <<>>
    ELSE (IF forest[k].kind = "Comment" THEN <<k>> ELSE <<>>)
             \o CommentPositions(forest, k + 1)

\* nodes are the comment-type entries of forest, in its order, each at this
\* depth, and so are their replies one level down
RECURSIVE Mirrors(_, _, _, _)
Mirrors(nodes, forest, path, depth) ==
    LET at == CommentPositions(forest, 1)
    IN  /\ Len(nodes) = Len(at)
        /\ \A k \in 1..Len(nodes) :
              /\ nodes[k].id = Append(path, at[k])
              /\ nodes[k].depth = depth
              /\ Mirrors(nodes[k].replies, forest[at[k]].replies,
                         Append(path, at[k]), depth + 1)

\* every child of a node at depth d, and below, has its parent's depth plus 1
RECURSIVE ChildrenOneDeeper(_)
ChildrenOneDeeper(node) ==
    \A k \in 1..Len(node.replies) :
        /\ node.replies[k].depth = node.depth + 1
        /\ ChildrenOneDeeper(node.replies[k])

\* the ids of the nodes of a tree, one per occurrence
RECURSIVE NodeIds(_)
NodeIds(nodes) ==
    IF nodes = <<>> THEN <<>>
    ELSE <<nodes[1].id>> \o NodeIds(nodes[1].replies) \o NodeIds(Tail(nodes))

\* the tree builder has just been applied
Built == last.op = "_build_comment_tree"

\* C27: for every forest and every limit the tree built in structured mode
\* has its top-level nodes at depth 0 and every child at its parent's depth
\* plus 1; the children of a node are the comment-type replies of its
\* comment, in the provider's order, and so on at every level; no node
\* appears twice.
C27_TreeKeepsNesting ==
    Built
      => LET tree == last.comments
             ids == NodeIds(tree)
         IN  /\ \A k \in 1..Len(tree) :
                   tree[k].depth = 0 /\ ChildrenOneDeeper(tree[k])
             /\ Mirrors(tree, last.forest, <<>>, 0)
             /\ \A i, j \in 1..Len(ids) : ids[i] = ids[j] => i = j

\* a tree of three levels has been built, with a limit other than 0, from a
\* forest in which an entry that is not a comment precedes a comment with
\* replies
C27_Witness ==
    /\ Built
    /\ last.limit = 1
    /\ Len(last.forest) = 2
    /\ last.forest[1].kind = "MoreComments"
    /\ Len(last.comments) = 1
    /\ last.comments[1].id = <<2>>
    /\ Len(last.comments[1].replies) = 2
    /\ last.comments[1].replies[2].depth = 1
    /\ Len(last.comments[1].replies[2].replies) = 1
    /\ last.comments[1].replies[2].replies[1].depth = 2
    /\ last.comments[1].replies[2].replies[1].id = <<2, 2, 2>>

\* the field names of the config class of each job kind
ConfigFields(job_type) ==
    CASE job_type = "subreddit" -> DOMAIN SubredditConfig("hot", 1, None)
      [] job_type = "redditor" -> DOMAIN RedditorConfig(1)
      [] OTHER -> DOMAIN CommentsConfig(0, TRUE)

\* C28: every stored job has a config of the shape of its job kind, and
\* every call handed to the pool has a config holding the field its job
\* kind requires.
C28_ConfigMatchesKind ==
    /\ \A id \in Rows :
          DOMAIN scrape_jobs[id].config = ConfigFields(scrape_jobs[id].job_type)
    /\ \A t \in 1..Len(calls) :
          calls[t].st # "none"
              => RequiredKey(calls[t].job_type) \in DOMAIN calls[t].config

\* C29: under fair scheduling, with every provider call returning or
\* raising, every job in the store eventually has a terminal status, unless
\* its record is deleted first.
C29_EveryJobTerminates ==
    \A id \in JobIds :
        [](id \in Rows
             => <>(id \notin Rows \/ scrape_jobs[id].status \in Terminal))

\* the step is a DELETE by the owner of the job's record
OwnerDeletes ==
    /\ last'.op = "cancel_job"
    /\ SelectOwned(scrape_jobs, last'.id, last'.caller) # <<>>

\* C30: a DELETE by the owner leaves a record whose stored status is
\* running in the store, with status cancelled, and removes a record with
\* any other status, leaving the registry unchanged; a record that has been
\* removed is never in the store again.
C30_DeleteSemantics ==
    [][/\ OwnerDeletes
            => LET id == last'.id
               IN  IF scrape_jobs[id].status = "running"
                   THEN /\ id \in DOMAIN scrape_jobs'
                        /\ scrape_jobs'[id].status = "cancelled"
                   ELSE /\ id \notin DOMAIN scrape_jobs'
                        /\ background_jobs' = background_jobs
       /\ \A id \in 1..ids_issued : id \notin Rows => id \notin DOMAIN scrape_jobs']_vars

====
